---- MODULE Spec2Model ----
(***************************************************************************)
(* A model of oxcart, a client for the Open-Xchange HTTP/JSON API:        *)
(* the session layer (OX), the folder directory (OxFolders), the calendar *)
(* client (OxCalendar), the appointment and recurrence codecs             *)
(* (OxAppointment, OxRecurrence) and create_appointment of lameox.py.     *)
(*                                                                         *)
(* Python values are tagged records, so that values of different Python   *)
(* types can be compared: None, str, int, dict (a function from keys to   *)
(* values) and list (a sequence).  Exceptions are records [exc |-> name]. *)
(***************************************************************************)
EXTENDS Integers, Sequences, FiniteSets, TLC

----------------------------------------------------------------------------
(* Bounds of the model. *)

\* HTTP calls the server may answer with a retry-inducing response per request.
MaxCalls == 3

----------------------------------------------------------------------------
(* Python / JSON values. *)

None == [kind |-> "None"]
JStr(s) == [kind |-> "str", s |-> s]
JInt(n) == [kind |-> "int", n |-> n]
JBool(b) == [kind |-> "bool", b |-> b]
Dict(f) == [kind |-> "dict", d |-> f]
List(l) == [kind |-> "list", l |-> l]
EmptyDict == Dict(<<>>)
EmptyList == List(<<>>)

\* bool(v): the truth value Python gives v in `while not resp`, `if data:`.
Truthy(v) ==
    CASE v.kind = "None" -> FALSE
      [] v.kind = "str"  -> v.s # ""
      [] v.kind = "int"  -> v.n # 0
      [] v.kind = "bool" -> v.b
      [] v.kind = "dict" -> DOMAIN v.d # {}
      [] v.kind = "list" -> Len(v.l) > 0
      [] OTHER -> TRUE

\* `k in v` for a dict (key membership) or a list (element membership).
In(k, v) ==
    CASE v.kind = "dict" -> k \in DOMAIN v.d
      [] v.kind = "list" -> \E i \in 1..Len(v.l) : v.l[i] = JStr(k)
      [] OTHER -> FALSE

\* An exception of class e, and the OXError of the source with its four fields.
Exc(e) == [exc |-> e]
OXError(user_, url_, data_, resp_) ==
    [exc |-> "OXError", user |-> user_, url |-> url_, data |-> data_, resp |-> resp_]

\* The outcome of a call: a returned value or a raised exception.
Returned(v) == [t |-> "return", val |-> v]
Raised(e) == [t |-> "raise", err |-> e]

----------------------------------------------------------------------------
(* The server's side: what an HTTP call can be answered with. *)

Tokens == {"tokA", "tokB"}
Users == {"alice"}

\* Status codes: 200, one that is not 200 and that raise_for_status lets pass
\* (a 3xx that requests does not follow), and a 5xx.
Statuses == {200, 304, 500}

\* requests.Response.raise_for_status raises for 400 <= status < 600 only.
RaisesForStatus(status) == 400 <= status /\ status < 600

\* An error payload with the given `categories` value.
ErrorPayload(cat) ==
    Dict([error |-> JStr("failed"), categories |-> cat, error_desc |-> JStr("failed")])

\* The `categories` values: the retry category, another one, and the list form
\* the source's comment mentions.
Categories ==
    {JStr("TRY_AGAIN"), JStr("USER_INPUT"), List(<<JStr("TRY_AGAIN"), JStr("USER_INPUT")>>)}

ErrorPayloads == {ErrorPayload(c) : c \in Categories}

\* A response body: empty text, text that is not JSON, or JSON text (held
\* as the value json() decodes it to).
EmptyBody == [body |-> "empty"]
InvalidBody == [body |-> "invalid"]
JsonBody(v) == [body |-> "json", json |-> v]

HttpResponse(status, body) == [status_code |-> status, text |-> body]

----------------------------------------------------------------------------
(* The client's state. *)

VARIABLES
    user,         \* OX.user: None or the user name the login returned
    session,      \* OX.session: None or the requests.Session
    auth_record,  \* OX._auth_record: None or the decoded login response
    folders,      \* OxCalendar._folders: the known-folder set
    pc,           \* "request": an HTTP call is awaiting its response;
                  \* "idle": the caller has control; "failed": OX() raised;
                  \* "codec" / "done": a codec call is due / none is left
    frame,        \* the operation that is inside _request
    req,          \* the locals of the running _request: method, url, data, json
    attempts,     \* the HTTP calls the running _request has issued, in order
    sleeps,       \* the time.sleep(1) calls the running _request has made
    lastResp,     \* the HTTP response the last operation handled last
    result,       \* what the last finished operation returned or raised
    gen,          \* the generator made by the last all_ / search / all_folders call
    host_utcoffset  \* seconds the host's local time is ahead of UTC

vars == <<user, session, auth_record, folders, pc, frame, req, attempts,
          sleeps, lastResp, result, gen, host_utcoffset>>

Session == [kind |-> "Session"]
NoFrame == [op |-> "none"]
NoReq == [method |-> "none"]
NoResp == [status_code |-> 0]
NoResult == [t |-> "none"]
NoGen == [state |-> "none"]

BaseUrl == "https://ox.example/ajax"

----------------------------------------------------------------------------
(* OX._request *)

\* WithSession with the user name in the place of the token.
WithSessionOfUser(params, auth) ==
    [k \in DOMAIN params \cup {"session"} |->
        IF k = "session" THEN auth.d["user"] ELSE params[k]]

\* params["session"] = self._auth_record["session"]
WithSession(params, auth) ==
    [k \in DOMAIN params \cup {"session"} |->
        IF k = "session" THEN auth.d["session"] ELSE params[k]]

\* Lines 91-97: the query parameters and the URL, built once per _request.
RequestUrl(path, params, auth) ==
    LET p1 == IF Truthy(Dict(params)) THEN params ELSE <<>>
        p2 == IF Truthy(auth) THEN WithSession(p1, auth) ELSE p1
    IN  [base_url |-> BaseUrl, path |-> path, query |-> p2]

\* The locals of _request after line 97.
RequestLocals(method, path, params, data, json, auth) ==
    [method |-> method, url |-> RequestUrl(path, params, auth), data |-> data, json |-> json]

\* Lines 102-107: the HTTP call one loop iteration makes.
WireRequest(r) ==
    [method |-> r.method,
     url |-> r.url,
     body |-> IF Truthy(r.data) THEN [enc |-> "form", content |-> r.data]
              ELSE IF Truthy(r.json) THEN [enc |-> "json", content |-> r.json]
              ELSE [enc |-> "none"]]

\* OX.POST, OX.PUT, OX.GET: how each passes its body to _request.
POST(path, params, data, auth) == RequestLocals("POST", path, params, data, None, auth)
PUT(path, params, data, auth) == RequestLocals("PUT", path, params, None, data, auth)
GET(path, params, auth) == RequestLocals("GET", path, params, None, None, auth)

Retry(sleep) == [t |-> "retry", sleep |-> sleep]

\* HandleError with the comparison of line 117 turned round.
HandleErrorInverted(r, usr, j) ==
    IF j.kind # "dict" \/ "categories" \notin DOMAIN j.d
    THEN Raised(Exc(IF j.kind = "dict" THEN "KeyError" ELSE "TypeError"))
    ELSE IF j.d["categories"] = JStr("TRY_AGAIN")
         THEN IF "error_desc" \in DOMAIN j.d
              THEN Raised(OXError(usr, r.url, r.data, j))
              ELSE Raised(Exc("KeyError"))
         ELSE Retry(1)

\* Lines 116-123: a decoded response with an error indicator.
HandleError(r, usr, j) ==
    IF j.kind # "dict" \/ "categories" \notin DOMAIN j.d
    THEN Raised(Exc(IF j.kind = "dict" THEN "KeyError" ELSE "TypeError"))
    ELSE IF j.d["categories"] # JStr("TRY_AGAIN")
         THEN IF "error_desc" \in DOMAIN j.d
              THEN Raised(OXError(usr, r.url, r.data, j))
              ELSE Raised(Exc("KeyError"))
         ELSE Retry(1)

\* AfterLoop without lines 124-125: the decoded body is returned whole.
AfterLoopWhole(j) ==
    IF ~Truthy(j) THEN Retry(0)
    ELSE Returned(j)

\* The loop condition `while not resp` (line 101) on a decoded response
\* that carried no error, then lines 124-126.
AfterLoop(j) ==
    IF ~Truthy(j) THEN Retry(0)
    ELSE IF In("data", j)
         THEN IF j.kind = "dict" THEN Returned(j.d["data"]) ELSE Raised(Exc("TypeError"))
         ELSE Returned(j)

\* Lines 108-126: what one HTTP response makes _request do.
HandleResponse(r, usr, resp) ==
    IF resp.status_code # 200 /\ RaisesForStatus(resp.status_code)
    THEN Raised(Exc("HTTPError"))
    ELSE IF resp.text.body = "empty" THEN Returned(None)
    ELSE IF resp.text.body = "invalid" THEN Raised(Exc("JSONDecodeError"))
    ELSE LET j == resp.text.json IN
         IF In("error", j) THEN HandleError(r, usr, j) ELSE AfterLoop(j)

----------------------------------------------------------------------------
(* Entering and leaving _request. *)

Finished(fr, out) == [frame |-> fr, out |-> out]

\* An operation calls _request with locals r while self.session is sess: the
\* first HTTP call goes out, or self.session.request fails on a None session.
Start(fr, r, sess) ==
    /\ sleeps' = 0
    /\ req' = r
    /\ IF sess = None
       THEN /\ pc' = "idle"
            /\ frame' = NoFrame
            /\ attempts' = <<>>
            /\ result' = Finished(fr, Raised(Exc("AttributeError")))
       ELSE /\ pc' = "request"
            /\ frame' = fr
            /\ attempts' = <<WireRequest(r)>>
            /\ result' = Finished(NoFrame, NoResult)

\* The operation in `frame` ends with outcome out.
Finish(out) ==
    /\ pc' = IF frame.op = "login" /\ frame.ctor /\ out.t = "raise" THEN "failed" ELSE "idle"
    /\ frame' = NoFrame
    /\ result' = Finished(frame, out)
    /\ req' = NoReq /\ attempts' = <<>> /\ sleeps' = 0

----------------------------------------------------------------------------
(* OX.login, OX.logout *)

LoginParams ==
    [action |-> JStr("login"), client |-> JStr("open-xchange-oxcart"), staySignedIn |-> JStr("True")]

LoginData(username, password) == Dict([name |-> JStr(username), password |-> JStr(password)])

\* Lines 44-56: a fresh HTTP session, then the credential POST.
login(username, password) ==
    /\ pc = "idle"
    /\ session' = [kind |-> "Session", headers |-> <<>>]
    /\ Start([op |-> "login", ctor |-> FALSE],
             POST("/login", LoginParams, LoginData(username, password), auth_record),
             session')
    /\ lastResp' = NoResp
    /\ UNCHANGED <<user, auth_record, folders, gen, host_utcoffset>>

\* Lines 64-67, with resp the value the POST returned.
LoginStore(resp) ==
    /\ auth_record' = resp
    /\ IF resp.kind # "dict"
       THEN /\ Finish(Raised(Exc("TypeError")))
            /\ UNCHANGED <<user, session>>
       ELSE IF "user" \notin DOMAIN resp.d
       THEN /\ Finish(Raised(Exc("KeyError")))
            /\ UNCHANGED <<user, session>>
       ELSE /\ user' = resp.d["user"]
            /\ IF "session" \notin DOMAIN resp.d
               THEN /\ Finish(Raised(Exc("KeyError")))
                    /\ UNCHANGED session
               ELSE /\ session' = [session EXCEPT !.headers = [session |-> resp.d["session"]]]
                    /\ Finish(Returned(None))
    \* OX.__init__ lines 38-39 follow the constructor's login
    /\ folders' = IF frame.ctor THEN {} ELSE folders
    /\ UNCHANGED gen

\* Lines 70-75: the termination call.
logout ==
    /\ pc = "idle"
    /\ Start([op |-> "logout"], GET("/login", [action |-> JStr("logout")], auth_record), session)
    /\ lastResp' = NoResp
    /\ UNCHANGED <<user, session, auth_record, folders, gen, host_utcoffset>>

\* Lines 76-79, reached when the GET returned.
LogoutClear ==
    /\ auth_record' = None
    /\ user' = None
    /\ session' = None
    /\ Finish(Returned(None))
    /\ UNCHANGED <<folders, gen>>

----------------------------------------------------------------------------
(* datetime values: the wall-clock reading in milliseconds since            *)
(* 1970-01-01T00:00 of the datetime's own frame, and its tzinfo.           *)

Datetime(wall_ms, tz) == [kind |-> "datetime", wall_ms |-> wall_ms, tz |-> tz]

\* datetime.fromtimestamp(ms / 1000, tz=timezone.utc)
FromTimestampUtc(ms) == Datetime(ms, "utc")

\* int(dt.strftime("%s")): the C library reads the wall-clock fields as host
\* local time, whatever the tzinfo, and drops the sub-second part.
StrftimeS(dt) == (dt.wall_ms \div 1000) - host_utcoffset

----------------------------------------------------------------------------
(* OxRecurrence *)

NONE == 0
DAILY == 1
WEEKLY == 2
MONTHLY == 3
YEARLY == 4
OxRecurrenceInterval == {NONE, DAILY, WEEKLY, MONTHLY, YEARLY}

OxRecurrence(id_, interval_, start_, days_) ==
    [kind |-> "OxRecurrence", id |-> id_, interval |-> interval_, start |-> start_, days |-> days_]

RECURSIVE SumSeq(_)
SumSeq(s) == IF s = <<>> THEN 0 ELSE Head(s) + SumSeq(Tail(s))

\* sum(2**((n+1)%7) for n in self.days), line 168
DaysMask(days) == SumSeq([i \in 1..Len(days) |-> 2^((days[i] + 1) % 7)])

\* OxRecurrence.to_ox: for WEEKLY and above the mask is computed and then
\* assigned as an attribute of the dict `ox`, which a dict does not accept.
rec_to_ox(r) ==
    LET ox == [recurrence_type |-> JInt(r.interval)] IN
    IF r.interval >= WEEKLY
    THEN LET mask == DaysMask(r.days) IN Raised(Exc("AttributeError"))
    ELSE Returned(Dict(ox))

\* OxRecurrence.none_to_ox
none_to_ox == Dict([recurrence_type |-> JInt(0)])

\* resp["days"] & (1 << n)
BitSet(mask, n) == (mask \div 2^n) % 2 = 1

RECURSIVE DecodeDays(_, _)
\* lines 238-240, from bit n upwards
DecodeDays(mask, n) ==
    IF n > 6 THEN <<>>
    ELSE (IF BitSet(mask, n) THEN <<(n + 6) % 7>> ELSE <<>>) \o DecodeDays(mask, n + 1)

\* rec_from_ox with the weekday bits read for Daily too (>= for > in line 237).
rec_from_oxFromDaily(d) ==
    IF "recurrence_type" \notin DOMAIN d THEN Raised(Exc("KeyError"))
    ELSE IF d["recurrence_type"].n = NONE THEN Returned(None)
    ELSE IF d["recurrence_type"].n >= DAILY /\ "days" \notin DOMAIN d THEN Raised(Exc("KeyError"))
    ELSE LET days == IF d["recurrence_type"].n >= DAILY
                     THEN DecodeDays(d["days"].n, 0) ELSE <<>>
         IN  IF "id" \notin DOMAIN d THEN Raised(Exc("KeyError"))
             ELSE IF d["recurrence_type"].n \notin OxRecurrenceInterval
                  THEN Raised(Exc("ValueError"))
             ELSE IF "recurrence_start" \notin DOMAIN d THEN Raised(Exc("KeyError"))
             ELSE Returned(OxRecurrence(d["id"], d["recurrence_type"].n,
                                        FromTimestampUtc(d["recurrence_start"].n), days))

\* OxRecurrence.from_ox on a decoded dict resp.d
rec_from_ox(d) ==
    IF "recurrence_type" \notin DOMAIN d THEN Raised(Exc("KeyError"))
    ELSE IF d["recurrence_type"].n = NONE THEN Returned(None)
    ELSE IF d["recurrence_type"].n > DAILY /\ "days" \notin DOMAIN d THEN Raised(Exc("KeyError"))
    ELSE LET days == IF d["recurrence_type"].n > DAILY
                     THEN DecodeDays(d["days"].n, 0) ELSE <<>>
         IN  IF "id" \notin DOMAIN d THEN Raised(Exc("KeyError"))
             ELSE IF d["recurrence_type"].n \notin OxRecurrenceInterval
                  THEN Raised(Exc("ValueError"))
             ELSE IF "recurrence_start" \notin DOMAIN d THEN Raised(Exc("KeyError"))
             ELSE Returned(OxRecurrence(d["id"], d["recurrence_type"].n,
                                        FromTimestampUtc(d["recurrence_start"].n), days))

----------------------------------------------------------------------------
(* OxAppointment *)

OxAppointment(id_, folder_, title_, start_, end_, full_time_, location_, note_, recurrence_, raw_) ==
    [kind |-> "OxAppointment", id |-> id_, folder |-> folder_, title |-> title_,
     start_date |-> start_, end_date |-> end_, full_time |-> full_time_,
     location |-> location_, note |-> note_, recurrence |-> recurrence_, raw |-> raw_]

\* The dict d with the entries of dict e written over it (dict.update).
Update(d, e) == [k \in DOMAIN d \cup DOMAIN e |-> IF k \in DOMAIN e THEN e[k] ELSE d[k]]

\* OxAppointment.to_ox
appt_to_ox(a) ==
    LET ox0 == [folder_id |-> a.folder,
                title |-> a.title,
                start_date |-> JInt(StrftimeS(a.start_date) * 1000),
                end_date |-> JInt(StrftimeS(a.end_date) * 1000)]
        ox1 == IF Truthy(a.location) THEN Update(ox0, [location |-> a.location]) ELSE ox0
        ox2 == IF Truthy(a.note) THEN Update(ox1, [note |-> a.note]) ELSE ox1
    IN  IF a.recurrence # None
        THEN LET r == rec_to_ox(a.recurrence) IN
             IF r.t = "raise" THEN r ELSE Returned(Dict(Update(ox2, r.val.d)))
        ELSE Returned(Dict(Update(ox2, none_to_ox.d)))

\* dict.get(key, None)
DictGet(d, k) == IF k \in DOMAIN d THEN d[k] ELSE None

ApptKeys == <<"id", "folder_id", "title", "start_date", "end_date">>

\* OxAppointment.from_ox on the value resp that a request returned
appt_from_ox(resp) ==
    IF resp.kind # "dict" THEN Raised(Exc("TypeError"))
    ELSE IF \E i \in 1..Len(ApptKeys) : ApptKeys[i] \notin DOMAIN resp.d
    THEN Raised(Exc("KeyError"))
    ELSE LET d == resp.d
             r == rec_from_ox(d)
         IN  IF r.t = "raise" THEN r
             ELSE Returned(OxAppointment(d["id"], d["folder_id"], d["title"],
                                         FromTimestampUtc(d["start_date"].n),
                                         FromTimestampUtc(d["end_date"].n),
                                         DictGet(d, "full_time"), DictGet(d, "location"),
                                         DictGet(d, "note"), r.val, resp))

----------------------------------------------------------------------------
(* OxCalendar *)

\* An operation raises e without reaching _request.
Fail(fr, e) ==
    /\ pc' = "idle"
    /\ frame' = NoFrame
    /\ req' = NoReq
    /\ attempts' = <<>>
    /\ sleeps' = 0
    /\ result' = Finished(fr, Raised(e))

GenDone == [state |-> "done"]

GetParams(id_, folder) == [action |-> JStr("get"), id |-> id_, folder |-> folder]

\* get_ without line 366: the folder is not recorded.
get_Unrecorded(id_, folder) ==
    /\ pc = "idle"
    /\ folders' = folders
    /\ Start([op |-> "get_", folder |-> folder], GET("/calendar", GetParams(id_, folder), auth_record), session)
    /\ lastResp' = NoResp
    /\ UNCHANGED <<user, session, auth_record, gen, host_utcoffset>>

\* OxCalendar.get_(id_, folder), lines 366-367
get_(id_, folder) ==
    /\ pc = "idle"
    /\ folders' = folders \cup {folder}
    /\ Start([op |-> "get_", folder |-> folder], GET("/calendar", GetParams(id_, folder), auth_record), session)
    /\ lastResp' = NoResp
    /\ UNCHANGED <<user, session, auth_record, gen, host_utcoffset>>

\* line 368
GetDecode(resp) ==
    /\ Finish(appt_from_ox(resp))
    /\ UNCHANGED <<user, session, auth_record, folders, gen>>

\* Calling the generator function all_ runs none of its body.
all_(start, end) ==
    /\ pc = "idle"
    /\ gen' = [state |-> "created", fn |-> "all_", start |-> start, end |-> end,
               index |-> <<>>, rest |-> <<>>]
    /\ result' = Finished([op |-> "all_"], Returned([kind |-> "generator"]))
    /\ req' = NoReq /\ attempts' = <<>> /\ sleeps' = 0 /\ lastResp' = NoResp
    /\ UNCHANGED <<user, session, auth_record, folders, pc, frame, host_utcoffset>>

\* lines 347-352
SearchQuery(pattern, startletter) ==
    LET q1 == IF Truthy(pattern) THEN [pattern |-> pattern] ELSE <<>>
    IN  IF Truthy(startletter) THEN Update(q1, [startletter |-> startletter]) ELSE q1

\* Calling the generator function search runs none of its body.
search(pattern, startletter) ==
    /\ pc = "idle"
    /\ gen' = [state |-> "created", fn |-> "search", pattern |-> pattern,
               startletter |-> startletter, index |-> <<>>, rest |-> <<>>]
    /\ result' = Finished([op |-> "search"], Returned([kind |-> "generator"]))
    /\ req' = NoReq /\ attempts' = <<>> /\ sleeps' = 0 /\ lastResp' = NoResp
    /\ UNCHANGED <<user, session, auth_record, folders, pc, frame, host_utcoffset>>

\* lines 333-335 and 347-353: the index request of the generator g
IndexRequest(g) ==
    IF g.fn = "all_"
    THEN GET("/calendar",
             [action |-> JStr("all"), columns |-> JStr("1,20"),
              start |-> JInt(StrftimeS(g.start) * 1000), end |-> JInt(StrftimeS(g.end) * 1000)],
             auth_record)
    ELSE IF g.fn = "search"
    THEN PUT("/calendar", [action |-> JStr("search"), columns |-> JStr("1,20")],
             Dict(SearchQuery(g.pattern, g.startletter)), auth_record)
    ELSE GET("/folders",
             [action |-> JStr("allVisible"), columns |-> JStr("1,2,3,4,100,102"),
              content_type |-> g.type_],
             auth_record)

\* Iterate with the loop stepping over the entry after the one it fetches.
IterateSkipping(g, rest) ==
    IF rest = <<>>
    THEN /\ pc' = "idle"
         /\ frame' = NoFrame
         /\ result' = Finished([op |-> "next", stage |-> "end"], Raised(Exc("StopIteration")))
         /\ req' = NoReq /\ attempts' = <<>> /\ sleeps' = 0
         /\ gen' = GenDone
         /\ UNCHANGED folders
    ELSE LET e == Head(rest) IN
         /\ folders' = folders \cup {e.l[2]}
         /\ Start([op |-> "next", stage |-> "get", folder |-> e.l[2]],
                  GET("/calendar", GetParams(e.l[1], e.l[2]), auth_record), session)
         /\ gen' = IF session = None THEN GenDone
                   ELSE [g EXCEPT !.state = "running",
                                  !.rest = IF Len(rest) > 1 THEN Tail(Tail(rest)) ELSE <<>>]

\* Iterate without lines 337 / 355 and 366: the entry's folder is not recorded.
IterateUnrecorded(g, rest) ==
    IF rest = <<>>
    THEN /\ pc' = "idle"
         /\ frame' = NoFrame
         /\ result' = Finished([op |-> "next", stage |-> "end"], Raised(Exc("StopIteration")))
         /\ req' = NoReq /\ attempts' = <<>> /\ sleeps' = 0
         /\ gen' = GenDone
         /\ UNCHANGED folders
    ELSE LET e == Head(rest) IN
         /\ folders' = folders
         /\ Start([op |-> "next", stage |-> "get", folder |-> e.l[2]],
                  GET("/calendar", GetParams(e.l[1], e.l[2]), auth_record), session)
         /\ gen' = IF session = None THEN GenDone
                   ELSE [g EXCEPT !.state = "running", !.rest = Tail(rest)]

\* The for loop of lines 336-338 / 354-356 over the entries rest: at its end
\* the generator is exhausted; otherwise the entry's folder is recorded (by
\* the loop and again by get_) and get_ issues its request.
Iterate(g, rest) ==
    IF rest = <<>>
    THEN /\ pc' = "idle"
         /\ frame' = NoFrame
         /\ result' = Finished([op |-> "next", stage |-> "end"], Raised(Exc("StopIteration")))
         /\ req' = NoReq /\ attempts' = <<>> /\ sleeps' = 0
         /\ gen' = GenDone
         /\ UNCHANGED folders
    ELSE LET e == Head(rest) IN
         /\ folders' = folders \cup {e.l[2]}
         /\ Start([op |-> "next", stage |-> "get", folder |-> e.l[2]],
                  GET("/calendar", GetParams(e.l[1], e.l[2]), auth_record), session)
         /\ gen' = IF session = None THEN GenDone
                   ELSE [g EXCEPT !.state = "running", !.rest = Tail(rest)]

\* Calling the generator function OxFolders.all_folders runs none of its body.
all_folders(type_) ==
    /\ pc = "idle"
    /\ gen' = [state |-> "created", fn |-> "all_folders", type_ |-> type_,
               index |-> <<>>, rest |-> <<>>]
    /\ result' = Finished([op |-> "all_folders"], Returned([kind |-> "generator"]))
    /\ req' = NoReq /\ attempts' = <<>> /\ sleeps' = 0 /\ lastResp' = NoResp
    /\ UNCHANGED <<user, session, auth_record, folders, pc, frame, host_utcoffset>>

\* all_.get(access, []), with `visible` for the local all_
Listed(visible, access) == IF access \in DOMAIN visible.d THEN visible.d[access].l ELSE <<>>

\* FolderEntries with the two groups the other way round.
FolderEntriesPublicFirst(visible) == Listed(visible, "public") \o Listed(visible, "private")

\* The folders the two nested loops of lines 135-136 go through, in order.
FolderEntries(visible) == Listed(visible, "private") \o Listed(visible, "public")

\* OxFolders.get_(folder[0]) for the next folder of the loops, lines 137, 140.
IterateFolders(g, rest) ==
    IF rest = <<>>
    THEN /\ pc' = "idle"
         /\ frame' = NoFrame
         /\ result' = Finished([op |-> "next", stage |-> "end"], Raised(Exc("StopIteration")))
         /\ req' = NoReq /\ attempts' = <<>> /\ sleeps' = 0
         /\ gen' = GenDone
    ELSE /\ Start([op |-> "next", stage |-> "detail"],
                  GET("/folders", [action |-> JStr("get"), id |-> Head(rest).l[1]], auth_record),
                  session)
         /\ gen' = IF session = None THEN GenDone
                   ELSE [g EXCEPT !.state = "running", !.rest = Tail(rest)]

\* Line 134 returned `visible`: the loops start.
FoldersIndex(visible) ==
    /\ IF visible.kind # "dict"
       THEN /\ Finish(Raised(Exc("AttributeError")))
            /\ gen' = GenDone
       ELSE IterateFolders([gen EXCEPT !.index = FolderEntries(visible)], FolderEntries(visible))
    /\ UNCHANGED <<user, session, auth_record, folders>>

\* Line 137: what get_ returned is yielded as it is.
FolderYield(resp) ==
    /\ Finish(Returned(resp))
    /\ gen' = [gen EXCEPT !.state = "suspended"]
    /\ UNCHANGED <<user, session, auth_record, folders>>

\* next() on the generator: runs its body up to the next HTTP call.
next ==
    /\ pc = "idle"
    /\ gen.state \in {"created", "suspended"}
    /\ IF gen.state = "created"
       THEN /\ Start([op |-> "next", stage |-> "index"], IndexRequest(gen), session)
            /\ gen' = IF session = None THEN GenDone ELSE [gen EXCEPT !.state = "running"]
            /\ UNCHANGED folders
       ELSE IF gen.fn = "all_folders"
            THEN IterateFolders(gen, gen.rest) /\ UNCHANGED folders
            ELSE Iterate(gen, gen.rest)
    /\ lastResp' = NoResp
    /\ UNCHANGED <<user, session, auth_record, host_utcoffset>>

\* The index request returned `appointments`.
NextIndex(appointments) ==
    /\ IF appointments.kind # "list"
       THEN /\ Finish(Raised(Exc("TypeError")))
            /\ gen' = GenDone
            /\ UNCHANGED folders
       ELSE Iterate([gen EXCEPT !.index = appointments.l], appointments.l)
    /\ UNCHANGED <<user, session, auth_record>>

\* The get request of the current entry returned resp: the appointment is yielded.
NextYield(resp) ==
    LET out == appt_from_ox(resp) IN
    /\ Finish(out)
    /\ gen' = IF out.t = "raise" THEN GenDone ELSE [gen EXCEPT !.state = "suspended"]
    /\ UNCHANGED <<user, session, auth_record, folders>>

\* lines 371-374: to_ox() when there is one; an AttributeError is swallowed
Encoded(appointment) ==
    IF appointment.kind = "OxAppointment"
    THEN LET r == appt_to_ox(appointment) IN
         IF r.t = "raise"
         THEN IF r.err.exc = "AttributeError" THEN Returned(appointment) ELSE r
         ELSE r
    ELSE Returned(appointment)

\* lines 375-377: the single known folder as the default
WithDefaultFolder(ox, known) ==
    IF "folder_id" \notin DOMAIN ox.d /\ Cardinality(known) = 1
    THEN Dict(Update(ox.d, [folder_id |-> CHOOSE f \in known : TRUE]))
    ELSE ox

\* lines 375-378: the creation request create submits, or what it raises first
Checked(appointment, known) ==
    LET enc == Encoded(appointment) IN
    IF enc.t = "raise" THEN enc
    ELSE IF enc.val.kind # "dict" THEN Raised(Exc("TypeError"))
    ELSE LET ox == WithDefaultFolder(enc.val, known) IN
         IF "folder_id" \notin DOMAIN ox.d THEN Raised(Exc("KeyError"))
         ELSE IF ox.d["folder_id"] \notin known THEN Raised(Exc("AssertionError"))
         ELSE Returned(ox)

\* OxCalendar.create(appointment), lines 371-379
create(appointment) ==
    /\ pc = "idle"
    /\ LET fr == [op |-> "create", appointment |-> appointment]
           c == Checked(appointment, folders)
       IN  IF c.t = "raise" THEN Fail(fr, c.err)
           ELSE Start(fr, PUT("/calendar", [action |-> JStr("new")], c.val, auth_record), session)
    /\ lastResp' = NoResp
    /\ UNCHANGED <<user, session, auth_record, folders, gen, host_utcoffset>>

\* lines 380-382 on the value resp the PUT returned; OXError() is called
\* without its four arguments, which is a TypeError.
CreateResult(resp) ==
    IF resp.kind \notin {"dict", "list"} THEN Raised(Exc("TypeError"))
    ELSE IF In("conflicts", resp) THEN Raised(Exc("TypeError"))
    ELSE IF resp.kind = "list" THEN Raised(Exc("TypeError"))
    ELSE IF "id" \notin DOMAIN resp.d THEN Raised(Exc("KeyError"))
    ELSE Returned(resp.d["id"])

CreateReturn(resp) ==
    /\ Finish(CreateResult(resp))
    /\ UNCHANGED <<user, session, auth_record, folders, gen>>

----------------------------------------------------------------------------
(* lameox.py: the command-line layer's create_appointment. *)

\* A pytz timezone: its name and its rule, an offset from UTC in seconds
\* for wall-clock readings before `switch` and another from `switch` on.
Zone(name, before, after, switch) ==
    [name |-> name, before |-> before, after |-> after, switch |-> switch]

\* The offset tz.localize(d) gives the naive datetime d, in seconds.
UtcOffset(tz, d) == IF d.wall_ms < tz.switch THEN tz.before ELSE tz.after

\* pytz.utc.localize(d) - tz.localize(d), line 250, in milliseconds
TimeDisplacement(tz, d) == UtcOffset(tz, d) * 1000

\* datetime + timedelta
Plus(d, delta_ms) == Datetime(d.wall_ms + delta_ms, d.tz)

OxAppointmentFields ==
    {"id", "folder", "title", "start_date", "end_date", "full_time", "location", "note",
     "recurrence", "raw"}

\* The __init__ that @dataclass generates for OxAppointment, called with the
\* keyword arguments kw: a keyword that is no field, or a field without a
\* value, is a TypeError.
NewOxAppointment(kw) ==
    IF DOMAIN kw # OxAppointmentFields THEN Raised(Exc("TypeError"))
    ELSE Returned(OxAppointment(kw.id, kw.folder, kw.title, kw.start_date, kw.end_date,
                                kw.full_time, kw.location, kw.note, kw.recurrence, kw.raw))

\* create_appointment(ox, yes=True, ...), lines 247-265
create_appointment(folder, title, start_date, end_date, timezone, location, notes) ==
    /\ pc = "idle"
    /\ LET fr == [op |-> "create_appointment", folder |-> folder, start_date |-> start_date,
                  end_date |-> end_date, timezone |-> timezone]
           time_displacement == TimeDisplacement(timezone, start_date)
           appointment ==
               NewOxAppointment(
                   [id |-> None, folder |-> folder, title |-> title,
                    start_date |-> Plus(start_date, time_displacement),
                    end_date |-> Plus(end_date, time_displacement),
                    timezone |-> JStr(timezone.name), full_time |-> JBool(FALSE),
                    location |-> location, note |-> notes, recurrence |-> None, raw |-> None])
       IN  IF appointment.t = "raise" THEN Fail(fr, appointment.err)
           ELSE LET c == Checked(appointment.val, folders) IN
                IF c.t = "raise" THEN Fail(fr, c.err)
                ELSE Start(fr, PUT("/calendar", [action |-> JStr("new")], c.val, auth_record),
                           session)
    /\ lastResp' = NoResp
    /\ UNCHANGED <<user, session, auth_record, folders, gen, host_utcoffset>>

----------------------------------------------------------------------------
(* The server's answers, by the action the request names. *)

FolderIds == {JInt(26), JInt(27)}
ApptIds == {JInt(10)}

\* Entries an index (action=all, action=search) lists at most.
MaxIndex == 2

IndexEntries == {List(<<i, f>>) : i \in ApptIds, f \in FolderIds}
Indexes == UNION {[1..n -> IndexEntries] : n \in 0..MaxIndex}

\* The appointment (id_, folder) as action=get returns it, with recurrence
\* type rt (weekly: on Tuesday).
WireAppointment(id_, folder, rt) ==
    [id |-> id_, folder_id |-> folder, title |-> JStr("Daily"),
     start_date |-> JInt(122400000), end_date |-> JInt(126000000),
     recurrence_type |-> JInt(rt)]
    @@ (IF rt = NONE THEN <<>> ELSE [recurrence_start |-> JInt(86400000)])
    @@ (IF rt >= WEEKLY THEN [days |-> JInt(4)] ELSE <<>>)

Envelope(v) == Dict([data |-> v])

\* A row of the folder summary (columns 1,2,...: the id comes first) and
\* the detailed record of a folder.
FolderRow(id_) == List(<<id_, JStr("0")>>)
FolderDetail(id_) == Dict([id |-> id_, title |-> JStr("Calendar"), module |-> JStr("calendar")])

\* Visibility-partitioned summaries: either group may be missing.
FolderSummaries ==
    {Dict(pr @@ pu) :
        pr \in {<<>>, [private |-> List(<<FolderRow(JInt(27))>>)],
                [private |-> List(<<FolderRow(JInt(26)), FolderRow(JInt(27))>>)]},
        pu \in {<<>>, [public |-> List(<<FolderRow(JInt(28))>>)]}}

SuccessPayloads(w) ==
    LET action == w.url.query["action"].s IN
    CASE action = "login" ->
            {Dict([session |-> JStr(t), user |-> JStr(u)]) : t \in Tokens, u \in Users}
      [] action \in {"all", "search"} -> {Envelope(List(ix)) : ix \in Indexes}
      [] action = "allVisible" -> {Envelope(v) : v \in FolderSummaries}
      [] action = "get" /\ w.url.path = "/folders" ->
            {Envelope(FolderDetail(w.url.query["id"])), FolderDetail(w.url.query["id"])}
      [] action = "get" /\ w.url.path = "/calendar" ->
            {Envelope(Dict(WireAppointment(w.url.query["id"], w.url.query["folder"], rt))) :
                rt \in {NONE, WEEKLY}}
      [] action = "new" ->
            {Envelope(Dict([id |-> JInt(11)])),
             Envelope(Dict([conflicts |-> List(<<Dict([id |-> JInt(10)])>>)]))}
      [] OTHER -> {}

Bodies(w) ==
    {EmptyBody, InvalidBody}
    \cup {JsonBody(j) : j \in ErrorPayloads \cup {EmptyDict, EmptyList} \cup SuccessPayloads(w)}

\* The answers to the HTTP call w: a body is read only of a status that
\* raise_for_status lets pass.
Responses(w) ==
    {HttpResponse(st, b) : st \in {x \in Statuses : ~RaisesForStatus(x)}, b \in Bodies(w)}
    \cup {HttpResponse(st, EmptyBody) : st \in {x \in Statuses : RaisesForStatus(x)}}

----------------------------------------------------------------------------
(* One iteration of the loop of _request: the response to the HTTP call in  *)
(* flight arrives; the request is re-issued, or _request raises or returns  *)
(* and the calling operation runs on to its end or to its next HTTP call.   *)

Reissue(out, resp) ==
    /\ Len(attempts) < MaxCalls
    /\ attempts' = Append(attempts, WireRequest(req))
    /\ sleeps' = sleeps + out.sleep
    /\ UNCHANGED <<user, session, auth_record, folders, pc, frame, req, result, gen>>

Propagate(out) ==
    /\ Finish(out)
    /\ gen' = IF frame.op = "next" THEN GenDone ELSE gen
    /\ UNCHANGED <<user, session, auth_record, folders>>

Continue(val) ==
    CASE frame.op = "login" -> LoginStore(val)
      [] frame.op = "logout" -> LogoutClear
      [] frame.op = "get_" -> GetDecode(val)
      [] frame.op \in {"create", "create_appointment"} -> CreateReturn(val)
      [] frame.op = "next" /\ frame.stage = "index" ->
            IF gen.fn = "all_folders" THEN FoldersIndex(val) ELSE NextIndex(val)
      [] frame.op = "next" /\ frame.stage = "detail" -> FolderYield(val)
      [] frame.op = "next" /\ frame.stage = "get" -> NextYield(val)

Respond ==
    /\ pc = "request"
    /\ \E resp \in Responses(attempts[Len(attempts)]) :
          LET out == HandleResponse(req, user, resp) IN
          /\ lastResp' = resp
          /\ CASE out.t = "retry" -> Reissue(out, resp)
               [] out.t = "raise" -> Propagate(out)
               [] out.t = "return" -> Continue(out.val)
    /\ UNCHANGED host_utcoffset

----------------------------------------------------------------------------
(* The caller's inputs. *)

Passwords == {"secret"}
HostUtcOffsets == {7200}

\* Naive datetimes of the caller: 1970-01-02 10:00 and 11:00 (TLC's integers
\* are 32 bits wide, which holds the milliseconds of the first weeks of 1970).
T1000 == Datetime(122400000, "naive")
T1100 == Datetime(126000000, "naive")

Recurrences == {None, OxRecurrence(JInt(10), WEEKLY, FromTimestampUtc(86400000), <<1>>)}

\* An appointment whose end is an hour before its start.
Backwards ==
    OxAppointment(None, JInt(26), JStr("Daily"), T1100, T1000, JBool(FALSE), None, None,
                  None, None)

\* Structured appointments, and raw mappings with and without folder_id.
Appointments ==
    {OxAppointment(None, f, JStr("Daily"), T1000, T1100, JBool(FALSE), None, None, r, None) :
        f \in FolderIds \cup {None}, r \in Recurrences}
    \cup {Dict([title |-> JStr("Daily"), start_date |-> JInt(115200000),
                end_date |-> JInt(118800000), recurrence_type |-> JInt(0)]
               @@ m) : m \in {<<>>} \cup {[folder_id |-> f] : f \in FolderIds}}
    \cup {Backwards}

\* A timezone that leaves summer time (+2:00) for standard time (+1:00) at
\* 10:30 on 1970-01-02, and UTC.
Zones == {Zone("Europe/Berlin", 7200, 3600, 124200000), Zone("UTC", 0, 0, 0)}

----------------------------------------------------------------------------
(* The specification.  Init is OX.__init__ at its login call: the fields   *)
(* are None, the credential POST is in flight.                             *)

Init ==
    /\ user = None
    /\ auth_record = None
    /\ session = [kind |-> "Session", headers |-> <<>>]
    /\ folders = {}
    /\ host_utcoffset \in HostUtcOffsets
    /\ \E u \in Users, p \in Passwords :
          req = POST("/login", LoginParams, LoginData(u, p), None)
    /\ attempts = <<WireRequest(req)>>
    /\ pc = "request"
    /\ frame = [op |-> "login", ctor |-> TRUE]
    /\ sleeps = 0
    /\ lastResp = NoResp
    /\ result = Finished(NoFrame, NoResult)
    /\ gen = NoGen

Next ==
    \/ Respond
    \/ \E u \in Users, p \in Passwords : login(u, p)
    \/ logout
    \/ \E i \in ApptIds, f \in FolderIds : get_(i, f)
    \/ all_(T1000, T1100)
    \/ search(JStr("Daily"), None)
    \/ all_folders(JStr("calendar"))
    \/ next
    \/ \E a \in Appointments : create(a)
    \/ \E f \in FolderIds \cup {None}, z \in Zones :
          create_appointment(f, JStr("Daily"), T1000, T1100, z, None, None)

Spec == Init /\ [][Next]_vars

----------------------------------------------------------------------------
(* The recurrence codec on its own: to_ox is applied to a recurrence, and   *)
(* from_ox to what to_ox returned.  No client is involved: frame holds the  *)
(* call that is due and result what the last call returned or raised.       *)

RECURSIVE SortedSeq(_)
\* The list of the numbers of S in increasing order.
SortedSeq(S) ==
    IF S = {} THEN <<>>
    ELSE LET m == CHOOSE x \in S : \A y \in S : x <= y
         IN  <<m>> \o SortedSeq(S \ {m})

Weekdays == 0..6

\* Recurrences of every interval kind with every set of weekdays; the
\* daily ones carry no weekdays.
RecurrenceInputs ==
    {OxRecurrence(JInt(10), k, FromTimestampUtc(86400000), SortedSeq(S)) :
        k \in {WEEKLY, MONTHLY, YEARLY}, S \in SUBSET Weekdays}
    \cup {OxRecurrence(JInt(10), DAILY, FromTimestampUtc(86400000), <<>>)}

InitCodec ==
    /\ user = None
    /\ auth_record = None
    /\ session = None
    /\ folders = {}
    /\ host_utcoffset \in HostUtcOffsets
    /\ req = NoReq
    /\ attempts = <<>>
    /\ sleeps = 0
    /\ lastResp = NoResp
    /\ gen = NoGen
    /\ pc = "codec"
    /\ \E r \in RecurrenceInputs : frame = [op |-> "to_ox", self |-> r]
    /\ result = Finished(NoFrame, NoResult)

\* r.to_ox()
EncodeRecurrence ==
    /\ pc = "codec"
    /\ frame.op = "to_ox"
    /\ LET out == rec_to_ox(frame.self) IN
       IF out.t = "raise"
       THEN /\ pc' = "done"
            /\ frame' = NoFrame
            /\ result' = Finished(frame, out)
       ELSE /\ pc' = "codec"
            /\ frame' = [op |-> "from_ox", self |-> frame.self, resp |-> out.val]
            /\ result' = Finished(frame, out)
    /\ UNCHANGED <<user, session, auth_record, folders, req, attempts, sleeps, lastResp,
                   gen, host_utcoffset>>

\* OxRecurrence.from_ox(resp) on what to_ox returned
DecodeRecurrence ==
    /\ pc = "codec"
    /\ frame.op = "from_ox"
    /\ pc' = "done"
    /\ frame' = NoFrame
    /\ result' = Finished(frame, rec_from_ox(frame.resp.d))
    /\ UNCHANGED <<user, session, auth_record, folders, req, attempts, sleeps, lastResp,
                   gen, host_utcoffset>>

NextCodec == EncodeRecurrence \/ DecodeRecurrence

SpecCodec == InitCodec /\ [][NextCodec]_vars

----------------------------------------------------------------------------
(* from_ox of the recurrence codec on what a server can send: every          *)
(* recurrence_type with every value of the `days` bitmask, or without one.  *)

WireRecurrences ==
    {Dict([recurrence_type |-> JInt(rt), id |-> JInt(10), recurrence_start |-> JInt(86400000)]
          @@ m) :
        rt \in OxRecurrenceInterval, m \in {<<>>} \cup {[days |-> JInt(b)] : b \in 0..127}}

InitWire ==
    /\ user = None
    /\ auth_record = None
    /\ session = None
    /\ folders = {}
    /\ host_utcoffset \in HostUtcOffsets
    /\ req = NoReq
    /\ attempts = <<>>
    /\ sleeps = 0
    /\ lastResp = NoResp
    /\ gen = NoGen
    /\ pc = "codec"
    /\ \E w \in WireRecurrences : frame = [op |-> "from_ox", resp |-> w]
    /\ result = Finished(NoFrame, NoResult)

NextWire == DecodeRecurrence

SpecWire == InitWire /\ [][NextWire]_vars

----------------------------------------------------------------------------
(* The appointment codec on its own: to_ox is applied to an appointment,    *)
(* and from_ox to the wire fields as the server hands them back on a get:   *)
(* the submitted fields and the id the server assigned.                     *)

\* Hosts at UTC, east of it and west of it (seconds ahead of UTC).
CodecHostUtcOffsets == {0, 7200, -18000}

\* Readings around 1970-01-02 10:00:00, with and without a sub-second part.
WallReadings == {122400000 + k * 250 : k \in 0..7}

\* Datetimes without tzinfo (host local time) and with tzinfo UTC.
Instants == {Datetime(w, tz) : w \in WallReadings, tz \in {"naive", "utc"}}

\* Appointments of an hour's length starting at each of them.
TimedAppointments ==
    {OxAppointment(None, JInt(26), JStr("Daily"), t, Plus(t, 3600000), JBool(FALSE),
                   None, None, None, None) : t \in Instants}

InitTimes ==
    /\ user = None
    /\ auth_record = None
    /\ session = None
    /\ folders = {}
    /\ host_utcoffset \in CodecHostUtcOffsets
    /\ req = NoReq
    /\ attempts = <<>>
    /\ sleeps = 0
    /\ lastResp = NoResp
    /\ gen = NoGen
    /\ pc = "codec"
    /\ \E a \in TimedAppointments : frame = [op |-> "appt_to_ox", self |-> a]
    /\ result = Finished(NoFrame, NoResult)

\* a.to_ox()
EncodeAppointment ==
    /\ pc = "codec"
    /\ frame.op = "appt_to_ox"
    /\ LET out == appt_to_ox(frame.self) IN
       IF out.t = "raise"
       THEN /\ pc' = "done"
            /\ frame' = NoFrame
            /\ result' = Finished(frame, out)
       ELSE /\ pc' = "codec"
            /\ frame' = [op |-> "appt_from_ox", self |-> frame.self,
                         resp |-> Dict(Update(out.val.d, [id |-> JInt(11)]))]
            /\ result' = Finished(frame, out)
    /\ UNCHANGED <<user, session, auth_record, folders, req, attempts, sleeps, lastResp,
                   gen, host_utcoffset>>

\* OxAppointment.from_ox(resp)
DecodeAppointment ==
    /\ pc = "codec"
    /\ frame.op = "appt_from_ox"
    /\ pc' = "done"
    /\ frame' = NoFrame
    /\ result' = Finished(frame, appt_from_ox(frame.resp))
    /\ UNCHANGED <<user, session, auth_record, folders, req, attempts, sleeps, lastResp,
                   gen, host_utcoffset>>

NextTimes == EncodeAppointment \/ DecodeAppointment

SpecTimes == InitTimes /\ [][NextTimes]_vars

----------------------------------------------------------------------------
(* What the properties below read off a step of _request. *)

\* The step handles a response: it starts with an HTTP call in flight.
Responding == pc = "request"

\* The response was given to json(): its status passed and it has a body.
Decoded(resp) == ~RaisesForStatus(resp.status_code) /\ resp.text.body = "json"

\* The decoded response carries an error indicator of category cat.
HasErrorOf(resp, cat) ==
    /\ Decoded(resp)
    /\ In("error", resp.text.json)
    /\ resp.text.json.d["categories"] = cat

HasError(resp) == Decoded(resp) /\ In("error", resp.text.json)

\* The step re-issues the request of the running _request.
Reissued == pc' = "request" /\ frame' = frame /\ Len(attempts') = Len(attempts) + 1

\* The session token the HTTP call w carries, None when it carries none.
SessionParam(w) == DictGet(w.url.query, "session")

----------------------------------------------------------------------------
C2_SessionOnEveryRequest ==
    pc = "request" =>
        \A i \in 1..Len(attempts) :
            IF auth_record = None
            THEN frame.op = "login"
            ELSE SessionParam(attempts[i]) = auth_record.d["session"]

----------------------------------------------------------------------------
(* What the properties below read off a create call. *)

\* create(a) names no folder: a structured appointment with folder=None or
\* a raw mapping without folder_id.
NoFolder(a) ==
    IF a.kind = "OxAppointment" THEN a.folder = None ELSE "folder_id" \notin DOMAIN a.d

\* The folder create(a) names.
Target(a) == IF a.kind = "OxAppointment" THEN a.folder ELSE a.d["folder_id"]

\* The last operation was create and it raised before any HTTP call.
CreateRefused == result.frame.op = "create" /\ pc = "idle" /\ lastResp = NoResp

\* The creation request of a create call is in flight.
CreateSubmitted == pc = "request" /\ frame.op = "create"

\* The step is a call of create.
CreateCalled == pc = "idle" /\ (frame'.op = "create" \/ result'.frame.op = "create")

\* The appointment the create call of this step was given.
CreateArg == IF frame'.op = "create" THEN frame'.appointment ELSE result'.frame.appointment

\* The value _request returns for the response resp to a finished create.
Reply(resp) ==
    IF Decoded(resp) /\ resp.text.json.kind = "dict" /\ "data" \in DOMAIN resp.text.json.d
    THEN resp.text.json.d["data"]
    ELSE None

HasConflicts(resp) == Reply(resp).kind = "dict" /\ "conflicts" \in DOMAIN Reply(resp).d
HasId(resp) == Reply(resp).kind = "dict" /\ "id" \in DOMAIN Reply(resp).d

----------------------------------------------------------------------------
\* The appointment has no recurrence for to_ox to encode.
Plain(a) == a.kind = "OxAppointment" => a.recurrence = None

\* The assertion error, and the KeyError that the lookup of a missing
\* folder_id raises ahead of the assertion.
PreconditionErrors == {Exc("AssertionError"), Exc("KeyError")}

\* C3: create with no folder specified (a structured appointment with
\* folder=None or a raw mapping without folder_id; here one without
\* recurrence, on a client that is logged in): with exactly one known
\* folder it submits the creation request with that folder as folder_id;
\* with no or several known folders it raises a precondition error.

C3_DefaultFolder ==
    /\ (CreateSubmitted /\ NoFolder(frame.appointment)) =>
          /\ Cardinality(folders) = 1
          /\ attempts[1].body.content.d["folder_id"] \in folders
    /\ (/\ CreateRefused /\ session # None
        /\ NoFolder(result.frame.appointment) /\ Plain(result.frame.appointment)) =>
          /\ Cardinality(folders) # 1
          /\ result.out.err \in PreconditionErrors

\* C4: whenever create is called with a target folder that is not in the
\* known-folder set, it fails with an assertion before the creation request
\* is issued: no action=new PUT goes out and the known-folder set is
\* unchanged.
C4_UnknownFolderAsserts ==
    [][(CreateCalled /\ ~NoFolder(CreateArg) /\ Target(CreateArg) \notin folders) =>
          /\ pc' = "idle"
          /\ attempts' = <<>>
          /\ folders' = folders
          /\ result'.out = Raised(Exc("AssertionError"))]_vars

\* C5: whatever the server answers to the termination call (a status other
\* than 200, an error payload of a non-transient category), logout clears
\* the stored token, the user name and the HTTP session and raises nothing.
C5_LogoutAlwaysClears ==
    (/\ result.frame.op = "logout" /\ pc = "idle" /\ lastResp # NoResp
     /\ \/ lastResp.status_code # 200
        \/ HasError(lastResp) /\ ~HasErrorOf(lastResp, JStr("TRY_AGAIN"))) =>
        /\ result.out.t = "return"
        /\ auth_record = None
        /\ user = None
        /\ session = None

\* The step handles the response to a login POST.
LoginAnswered == Responding /\ frame.op = "login"

\* The login failed: a 4xx/5xx status or an error payload that is not transient.
LoginRejected(resp) ==
    \/ RaisesForStatus(resp.status_code)
    \/ HasError(resp) /\ ~HasErrorOf(resp, JStr("TRY_AGAIN"))

\* The login succeeded: the server returned a session token and a user.
LoginAccepted(resp) ==
    /\ Decoded(resp)
    /\ resp.text.json.kind = "dict"
    /\ {"session", "user"} \subseteq DOMAIN resp.text.json.d

\* C6: when the credential POST succeeds, login stores the returned token
\* and user name and every later request carries that token; when it fails
\* with a 4xx/5xx status or a non-transient error payload, the error goes to
\* the caller and that call stores no token and no user name.
C6_LoginStoresOrRaises ==
    [][/\ (LoginAnswered /\ LoginAccepted(lastResp')) =>
             /\ result'.out.t = "return"
             /\ auth_record' = lastResp'.text.json
             /\ auth_record'.d["session"] \in {JStr(t) : t \in Tokens}
             /\ user' = lastResp'.text.json.d["user"]
       /\ (LoginAnswered /\ LoginRejected(lastResp')) =>
             /\ result'.out.t = "raise"
             /\ result'.frame = frame
             /\ auth_record' = auth_record
             /\ user' = user
       /\ (pc' = "request" /\ auth_record' # None) =>
             SessionParam(attempts'[Len(attempts')]) = auth_record'.d["session"]]_vars

\* A login after a logout was rejected: the client holds no token, no user.
C6_Witness ==
    /\ result.frame = [op |-> "login", ctor |-> FALSE]
    /\ result.out.t = "raise"
    /\ LoginRejected(lastResp)
    /\ auth_record = None
    /\ user = None

\* The exception create raises when the reply has a conflicts indicator.
ConflictError == CreateResult(Dict([conflicts |-> EmptyList])).err

\* C7: when the reply to the creation request has a conflicts indicator,
\* create raises a conflict error, which the caller can tell apart from a
\* generic API error (OXError) and from its other failures, and returns no
\* id; when the reply has an id and no conflicts indicator, create returns
\* that id.
C7_ConflictIsDistinct ==
    (result.frame.op = "create" /\ pc = "idle" /\ lastResp # NoResp) =>
        /\ HasConflicts(lastResp) =>
              /\ result.out = Raised(ConflictError)
              /\ ConflictError.exc # "OXError"
        /\ (HasId(lastResp) /\ ~HasConflicts(lastResp)) =>
              result.out = Returned(Reply(lastResp).d["id"])
        /\ (result.out.t = "raise" /\ result.out.err.exc = ConflictError.exc) =>
              HasConflicts(lastResp)

\* C8: every non-transient wire-level error a request raises, for GET, POST
\* and PUT alike, carries the authenticated user, the full request URL, the
\* data submitted with the request and the complete decoded error payload.
C8_ErrorCarriesContext ==
    [][(Responding /\ result'.out.t = "raise" /\ result'.out.err.exc = "OXError") =>
          LET w == attempts[Len(attempts)]
              e == result'.out.err
          IN  /\ e.user = user
              /\ e.url = w.url
              /\ e.data = (IF w.body.enc = "none" THEN None ELSE w.body.content)
              /\ e.resp = lastResp'.text.json]_vars

\* C9: a request is re-issued only after a response with a TRY_AGAIN error:
\* a response with a passing status and a decodable body without an error
\* indicator ends the request cycle, whatever it decodes to (an empty or
\* non-empty object or list).
C9_NoRetryWithoutError ==
    [][(Responding /\ Decoded(lastResp') /\ ~HasError(lastResp')) => ~Reissued]_vars

\* The set of the elements of the list l.
Elements(l) == {l[i] : i \in 1..Len(l)}

\* C10: for every recurrence r of kind Daily, Weekly, Monthly or Yearly and
\* every set of weekdays (none for Daily), from_ox(r.to_ox()) is r: to_ox
\* puts weekday d at bit (d+1) mod 7 of the mask `days` and from_ox reads
\* bit n as weekday (n+6) mod 7, so the round trip ends with a recurrence
\* of r's interval kind and r's weekdays.
C10_RoundTrip ==
    pc = "done" =>
        /\ result.frame.op = "from_ox"
        /\ result.out.t = "return"
        /\ result.out.val.interval = result.frame.self.interval
        /\ Elements(result.out.val.days) = Elements(result.frame.self.days)
        /\ result.frame.self.interval >= WEEKLY =>
              result.frame.resp.d["days"] = JInt(DaysMask(result.frame.self.days))

----------------------------------------------------------------------------
\* The step is a call of lameox's create_appointment.
CreateAppointmentCalled ==
    pc = "idle" /\ "create_appointment" \in {frame'.op, result'.frame.op}

\* The arguments of that call.
CreateAppointmentArg ==
    IF frame'.op = "create_appointment" THEN frame' ELSE result'.frame

\* The epoch milliseconds of the local time d in the timezone tz.
UtcMillis(tz, d) == d.wall_ms - UtcOffset(tz, d) * 1000

\* C11: creating an appointment from a local start time in a named timezone
\* whose offset at that instant is +k hours submits a wire start_date equal
\* to the epoch milliseconds of (local start minus k hours) in UTC: for a
\* zone at +2:00, on a host at +2:00, 10:00 local goes out as 08:00 UTC.
C11_StartSubmittedAsUtc ==
    [][(/\ CreateAppointmentCalled
        /\ session # None
        /\ CreateAppointmentArg.folder \in folders) =>
          /\ pc' = "request"
          /\ attempts'[1].url.query["action"] = JStr("new")
          /\ attempts'[1].body.content.d["start_date"] =
                JInt(UtcMillis(CreateAppointmentArg.timezone, CreateAppointmentArg.start_date))]_vars

----------------------------------------------------------------------------
\* The step ends a get_ or a next() by handing an appointment to the caller.
AppointmentReturned ==
    /\ result' # result
    /\ result'.frame.op \in {"get_", "next"}
    /\ result'.out.t = "return"
    /\ result'.out.val.kind = "OxAppointment"

\* C12: after any sequence of listing, search and get operations the
\* known-folder set contains the folder of every appointment these returned
\* to the caller, and no operation (create, logout, login, a fetch that
\* raises) removes a folder from it.
C12_FoldersAccumulate ==
    [][/\ folders \subseteq folders'
       /\ AppointmentReturned => result'.out.val.folder \in folders']_vars

\* A listing has yielded an appointment of a second folder.
C12_Witness ==
    /\ result.frame.op = "next"
    /\ result.out.t = "return"
    /\ result.out.val.kind = "OxAppointment"
    /\ result.out.val.folder = JInt(27)
    /\ folders = FolderIds

----------------------------------------------------------------------------
\* C13: a response with a status outside 200..299 makes the request raise a
\* transport error at once: its body is not decoded, the request is not
\* re-issued and no payload reaches the caller.
C13_NonSuccessStatusRaises ==
    [][(Responding /\ lastResp'.status_code \notin 200..299) =>
          /\ ~Reissued
          /\ pc' # "request"
          /\ result'.frame = frame
          /\ result'.out = Raised(Exc("HTTPError"))]_vars

----------------------------------------------------------------------------
(* What the properties below read off the generator of all_ / search. *)

\* g is a generator of all_ or search that is not exhausted.
CalendarGen(g) == g.state \in {"created", "running", "suspended"} /\ g.fn \in {"all_", "search"}

\* The entries of the index whose get request g has issued.
Fetched(g) == Len(g.index) - Len(g.rest)

\* The get request for the index entry e.
EntryGet(e) == WireRequest(GET("/calendar", GetParams(e.l[1], e.l[2]), auth_record))

\* The step starts a request of stage st of the generator.
StageStarted(st) ==
    /\ frame' # frame
    /\ pc' = "request"
    /\ frame'.op = "next"
    /\ frame'.stage = st
    /\ CalendarGen(gen')

\* C14: all_ and search issue one index request per invocation and then one
\* get request per (id, folder) entry of the index, in index order, and yield
\* the appointment of each entry as the server returned it (no filtering on
\* the client); a new invocation starts again with its index request.
C14_IndexThenOneGetPerEntry ==
    [][/\ (CalendarGen(gen) /\ gen.state = "created" /\ gen'.state = "running") =>
             /\ StageStarted("index")
             /\ attempts' = <<WireRequest(IndexRequest(gen))>>
       /\ StageStarted("index") => gen.state = "created"
       /\ StageStarted("get") =>
             /\ gen'.rest = SubSeq(gen'.index, Fetched(gen') + 1, Len(gen'.index))
             /\ Fetched(gen') = (IF frame.op = "next" /\ frame.stage = "index"
                                 THEN 1 ELSE Fetched(gen) + 1)
             /\ frame.op = "next" => gen'.index = Reply(lastResp').l
             /\ frame.op # "next" => gen.state = "suspended" /\ gen'.index = gen.index
             /\ attempts' = <<EntryGet(gen'.index[Fetched(gen')])>>
       /\ (gen' # gen /\ CalendarGen(gen') /\ gen'.state = "suspended") =>
             /\ Responding
             /\ frame.op = "next"
             /\ frame.stage = "get"
             /\ gen' = [gen EXCEPT !.state = "suspended"]
             /\ result'.out = appt_from_ox(Reply(lastResp'))
             /\ result'.out.t = "return"
             /\ result'.out.val.id = gen.index[Fetched(gen)].l[1]
             /\ result'.out.val.folder = gen.index[Fetched(gen)].l[2]
       /\ (result' # result /\ CalendarGen(gen) /\ result'.out = Raised(Exc("StopIteration"))) =>
             IF frame.op = "next"
             THEN frame.stage = "index" /\ Reply(lastResp') = EmptyList
             ELSE gen.state = "suspended" /\ gen.rest = <<>>
       /\ (pc = "idle" /\ gen' # gen /\ gen'.state = "created") =>
             gen'.index = <<>> /\ pc' = "idle"]_vars

\* A listing over an index of two different entries has yielded the second.
C14_Witness ==
    /\ gen.state = "suspended"
    /\ Len(gen.index) = 2
    /\ gen.index[1] # gen.index[2]
    /\ gen.rest = <<>>
    /\ result.frame.op = "next"
    /\ result.out.t = "return"
    /\ result.out.val.folder = gen.index[2].l[2]

----------------------------------------------------------------------------
(* What the properties below read off the generator of all_folders. *)

\* The value a request hands its caller for the response resp: nothing for
\* an empty body, the content of `data` when the decoded body has one, the
\* decoded body otherwise.
Payload(resp) ==
    IF resp.text.body = "empty" THEN None
    ELSE IF In("data", resp.text.json) THEN resp.text.json.d["data"]
    ELSE resp.text.json

\* g is a generator of all_folders that is not exhausted.
FolderGen(g) == g.state \in {"created", "running", "suspended"} /\ g.fn = "all_folders"

\* The rows of the summary v: the private group, then the public group.
PrivateThenPublic(v) ==
    (IF "private" \in DOMAIN v.d THEN v.d["private"].l ELSE <<>>)
    \o (IF "public" \in DOMAIN v.d THEN v.d["public"].l ELSE <<>>)

SummaryRequest(type_) ==
    WireRequest(GET("/folders",
                    [action |-> JStr("allVisible"), columns |-> JStr("1,2,3,4,100,102"),
                     content_type |-> type_],
                    auth_record))

DetailRequest(id_) ==
    WireRequest(GET("/folders", [action |-> JStr("get"), id |-> id_], auth_record))

\* The step starts a request of stage st of the generator.
FolderStageStarted(st) ==
    /\ frame' # frame
    /\ pc' = "request"
    /\ frame'.op = "next"
    /\ frame'.stage = st
    /\ FolderGen(gen')

\* C15: all_folders(content_type) issues one summary request (allVisible)
\* and then one detail request per folder the summary lists, and yields the
\* detailed records, the private folders first and then the public ones,
\* each group in the order of the summary; a new call fetches again.
C15_SummaryThenOneDetailPerFolder ==
    [][/\ (FolderGen(gen) /\ gen.state = "created" /\ gen'.state = "running") =>
             /\ FolderStageStarted("index")
             /\ attempts' = <<SummaryRequest(gen.type_)>>
       /\ FolderStageStarted("index") => gen.state = "created"
       /\ FolderStageStarted("detail") =>
             /\ gen'.rest = SubSeq(gen'.index, Fetched(gen') + 1, Len(gen'.index))
             /\ Fetched(gen') = (IF frame.op = "next" THEN 1 ELSE Fetched(gen) + 1)
             /\ frame.op = "next" =>
                   frame.stage = "index" /\ gen'.index = PrivateThenPublic(Payload(lastResp'))
             /\ frame.op # "next" => gen.state = "suspended" /\ gen'.index = gen.index
             /\ attempts' = <<DetailRequest(gen'.index[Fetched(gen')].l[1])>>
       /\ (gen' # gen /\ FolderGen(gen') /\ gen'.state = "suspended") =>
             /\ Responding
             /\ frame.op = "next"
             /\ frame.stage = "detail"
             /\ gen' = [gen EXCEPT !.state = "suspended"]
             /\ result'.out = Returned(Payload(lastResp'))
             /\ Payload(lastResp') # None =>
                   Payload(lastResp').d["id"] = gen.index[Fetched(gen)].l[1]
       /\ (result' # result /\ FolderGen(gen) /\ result'.out = Raised(Exc("StopIteration"))) =>
             IF frame.op = "next"
             THEN frame.stage = "index" /\ PrivateThenPublic(Payload(lastResp')) = <<>>
             ELSE gen.state = "suspended" /\ gen.rest = <<>>
       /\ (pc = "idle" /\ gen' # gen /\ FolderGen(gen') /\ gen'.state = "created") =>
             gen'.index = <<>> /\ pc' = "idle"]_vars

\* all_folders has yielded the public folder after the two private ones.
C15_Witness ==
    /\ gen.state = "suspended"
    /\ gen.fn = "all_folders"
    /\ gen.index = <<FolderRow(JInt(26)), FolderRow(JInt(27)), FolderRow(JInt(28))>>
    /\ gen.rest = <<>>
    /\ result.frame.op = "next"
    /\ result.out = Returned(FolderDetail(JInt(28)))

----------------------------------------------------------------------------
\* The instant a datetime denotes, in epoch milliseconds: a datetime with
\* tzinfo UTC reads in UTC, a naive one in the host's local time.
EpochMillis(dt) ==
    IF dt.tz = "utc" THEN dt.wall_ms ELSE dt.wall_ms - host_utcoffset * 1000

\* t cut down to whole seconds.
WholeSeconds(ms) == (ms \div 1000) * 1000

\* C16: for every instant t, decoding (from_ox: the wire value / 1000 read
\* as a UTC instant) the timestamp that encoding t produced (to_ox: whole
\* epoch seconds times 1000) gives t cut down to whole seconds, and every
\* encoded start_date and end_date is a multiple of 1000.
C16_TimestampRoundTrip ==
    pc = "done" =>
        /\ result.frame.op = "appt_from_ox"
        /\ result.out.t = "return"
        /\ result.frame.resp.d["start_date"].n % 1000 = 0
        /\ result.frame.resp.d["end_date"].n % 1000 = 0
        /\ EpochMillis(result.out.val.start_date) =
              WholeSeconds(EpochMillis(result.frame.self.start_date))
        /\ EpochMillis(result.out.val.end_date) =
              WholeSeconds(EpochMillis(result.frame.self.end_date))

----------------------------------------------------------------------------
\* The weekdays (Monday = 0) of the bits set in the wire bitmask.
WeekdaysOf(mask) == {(n + 6) % 7 : n \in {k \in 0..6 : (mask \div 2^k) % 2 = 1}}

\* C17: from_ox returns no recurrence when recurrence_type is 0, and for
\* Daily a recurrence with an empty weekday list whatever the `days` bitmask;
\* weekday bits are decoded only above Daily, so a decoded recurrence with
\* weekdays has interval kind Weekly or above.
C17_WeekdaysOnlyAboveDaily ==
    pc = "done" =>
        LET w == result.frame.resp.d
            out == result.out
            rt == w["recurrence_type"].n
        IN  /\ rt = NONE => out = Returned(None)
            /\ rt = DAILY =>
                  /\ out.t = "return"
                  /\ out.val.interval = DAILY
                  /\ out.val.days = <<>>
            /\ (rt > DAILY /\ "days" \in DOMAIN w) =>
                  /\ out.t = "return"
                  /\ out.val.interval = rt
                  /\ Elements(out.val.days) = WeekdaysOf(w["days"].n)
            /\ (out.t = "return" /\ out.val.kind = "OxRecurrence" /\ out.val.days # <<>>) =>
                  out.val.interval >= WEEKLY

\* A Daily recurrence sent with every bit of `days` set was decoded.
C17_Witness ==
    /\ pc = "done"
    /\ result.frame.op = "from_ox"
    /\ result.frame.resp.d["recurrence_type"] = JInt(DAILY)
    /\ "days" \in DOMAIN result.frame.resp.d
    /\ result.frame.resp.d["days"] = JInt(127)
    /\ result.out.t = "return"
    /\ result.out.val.days = <<>>

----------------------------------------------------------------------------
\* C18: when an appointment is created from local start and end times, the
\* timezone offset is computed once, from the start, and applied to both, so
\* the submitted end_date minus start_date is the requested end minus start,
\* also when the zone changes its offset between start and end.
C18_SameOffsetForStartAndEnd ==
    [][(/\ CreateAppointmentCalled
        /\ session # None
        /\ CreateAppointmentArg.folder \in folders) =>
          /\ pc' = "request"
          /\ attempts'[1].url.query["action"] = JStr("new")
          /\ attempts'[1].body.content.d["end_date"].n
                - attempts'[1].body.content.d["start_date"].n
             = CreateAppointmentArg.end_date.wall_ms - CreateAppointmentArg.start_date.wall_ms]_vars

----------------------------------------------------------------------------
\* The step ends the running call of _request: it returns or raises.
CallEnded == ~Reissued /\ (pc' # "request" \/ frame' # frame)

\* C19: a request to which the server answers TRY_AGAIN finitely often and
\* then anything else comes to an end: every TRY_AGAIN answer is followed by
\* another attempt, without a cap and without the error reaching the caller,
\* and the first answer that is not TRY_AGAIN makes the call return or raise.
C19_EndsAfterLastTryAgain ==
    [][Responding =>
          IF HasErrorOf(lastResp', JStr("TRY_AGAIN"))
          THEN Reissued /\ result' = result
          ELSE CallEnded]_vars

----------------------------------------------------------------------------
\* The response ends the request without an error: its status passes, and
\* its body is empty or decodes to a non-empty value without an error
\* indicator.
EndsWithoutError(resp) ==
    /\ ~RaisesForStatus(resp.status_code)
    /\ \/ resp.text.body = "empty"
       \/ Decoded(resp) /\ ~HasError(resp) /\ Truthy(resp.text.json)

\* C20: a request that ends without error returns nothing (None) when the
\* response body is empty, the content of `data` when the decoded body has
\* one, and the decoded body itself otherwise; seen where the caller keeps
\* or hands on the returned value: login stores it, OxFolders.get_ returns
\* it, OxCalendar.get_ decodes it, create reads the id from it.
C20_ReturnedPayload ==
    [][(Responding /\ EndsWithoutError(lastResp')) =>
          /\ ~Reissued
          /\ frame.op = "login" => auth_record' = Payload(lastResp')
          /\ (frame.op = "next" /\ frame.stage = "detail") =>
                result'.out = Returned(Payload(lastResp'))
          /\ frame.op = "get_" => result'.out = appt_from_ox(Payload(lastResp'))
          /\ frame.op = "create" => result'.out = CreateResult(Payload(lastResp'))]_vars

\* A folder record sent without a `data` envelope was returned as it is.
C20_Witness ==
    /\ pc = "idle"
    /\ result.frame = [op |-> "next", stage |-> "detail"]
    /\ lastResp.text = JsonBody(FolderDetail(JInt(27)))
    /\ result.out = Returned(FolderDetail(JInt(27)))

----------------------------------------------------------------------------
\* C21: every appointment has start <= end: create never submits a creation
\* request whose wire start_date is greater than its end_date, whatever
\* appointment the caller constructed.
C21_StartNotAfterEnd ==
    CreateSubmitted =>
        \A i \in 1..Len(attempts) :
            attempts[i].body.content.d["start_date"].n
                <= attempts[i].body.content.d["end_date"].n

----------------------------------------------------------------------------
\* The step is a call of all_ or search.
GeneratorMade ==
    /\ pc = "idle"
    /\ result' # result
    /\ result'.frame.op \in {"all_", "search"}

\* The step takes the for loop of the generator to its next entry.
EntryTaken ==
    /\ CalendarGen(gen')
    /\ gen'.state = "running"
    /\ gen'.index # <<>>
    /\ gen' # gen

\* C22: all_ and search are lazy: a call that is not consumed issues no HTTP
\* request and leaves the known-folder set as it is; during consumption the
\* folder of each entry is in the known-folder set before the entry's get
\* request goes out, and stays there when that get raises.
C22_LazyAndRecordedBeforeGet ==
    [][/\ GeneratorMade =>
             /\ pc' = "idle"
             /\ attempts' = <<>>
             /\ folders' = folders
             /\ gen'.state = "created"
       /\ EntryTaken =>
             /\ StageStarted("get")
             /\ gen'.index[Fetched(gen')].l[2] \in folders'
             /\ frame'.folder = gen'.index[Fetched(gen')].l[2]
       /\ (Responding /\ frame.op = "next" /\ frame.stage = "get") =>
             /\ frame.folder \in folders
             /\ frame.folder \in folders']_vars

\* The get request of a listed entry raised; its folder is recorded.
C22_Witness ==
    /\ pc = "idle"
    /\ result.frame = [op |-> "next", stage |-> "get", folder |-> JInt(27)]
    /\ result.out.t = "raise"
    /\ folders = {JInt(27)}
====
